---- MODULE Spec2Model ----
(***************************************************************************)
(* Model of the SSE relay of audio_ws_to_sse: the /stream handler of       *)
(* src/unnamed/part_000 (probe, retry, socket, flush timer) and the older  *)
(* /stream handler of src/src/index.ts.  A session is one HTTP request; an *)
(* attempt is one invocation of connectWebSocket, which owns the socket,   *)
(* the accumulator, the connection timeout and the flush interval that     *)
(* invocation creates.  filterState is the module-level variable shared by *)
(* every session of the process.                                           *)
(*                                                                         *)
(* The express response is modelled by what express does: a               *)
(* res.status(c).json(..) or res.writeHead(..) on a response whose headers *)
(* were sent throws ERR_HTTP_HEADERS_SENT.  Thrown from a socket handler   *)
(* or a timer callback the exception is uncaught (the source installs no   *)
(* handler) and the process exits; thrown inside connectWebSocket's try it *)
(* reaches that function's catch block.                                    *)
(***************************************************************************)
EXTENDS Integers, Sequences, FiniteSets, TLC

VARIABLES program, sess, hist, filterState, crashed

vars == <<program, sess, hist, filterState, crashed>>

\* ---------------------------------------------------------------- bounds
\* Retry ceiling.  The source sets 30 (part_000:39); the model scales it.
MAX_RETRIES == 2
\* Most chunks an accumulator holds between two flush ticks.
MaxChunks == 2

\* ------------------------------------------------------------- constants
\* alpha = dt / (RC + dt) = 2*pi*1000 / (32000 + 2*pi*1000) = 0.164...,
\* kept as the fraction AlphaNum / AlphaDen; the carried filter value is
\* kept in units of 1 / AlphaDen (the source carries an unrounded double).
AlphaNum == 164
AlphaDen == 1000

Sessions == {1, 2}
\* The sessions the lifecycle specification drives.
LifecycleSessions == {1}

Programs == {"part_000", "index"}

\* fetch outcomes: an HTTP status, or 0 when fetch rejects.
ProbeResults == {200, 400, 404, 0}
\* error.code of a socket error: 400, 404, or 0 for anything else.
ErrorCodes == {400, 404, 0}
\* A close reason, as the set of the tokens it contains.
Reasons == SUBSET {"400", "404"}

\* Binary frames (bytes).  An odd-length frame makes the decoder throw.
LifecycleFrames == {<<>>, <<0, 0>>, <<0>>}
FilterFrames == {<<100, 0>>, <<156, 255>>}

\* What the encoder does at a flush: emits bytes, or throws.
Encodings == {"bytes", "throw"}

\* ------------------------------------------------------- pure functions
Includes(reason, token) == token \in reason

ToInt16(n) ==
  LET m == n % 65536 IN IF m >= 32768 THEN m - 65536 ELSE m

\* Math.round on a value in units of 1 / AlphaDen: floor(v + 0.5).
Round(v) == (2 * v + AlphaDen) \div (2 * AlphaDen)

RECURSIVE DecodeFrom(_, _)
DecodeFrom(bytes, k) ==
  IF 2 * k > Len(bytes) THEN <<>>
  ELSE <<ToInt16(bytes[2 * k - 1] + 256 * bytes[2 * k])>> \o DecodeFrom(bytes, k + 1)

\* convertPCMToInt16; defined for even byteLength (an odd one throws a
\* RangeError at the read of the last, incomplete sample).
convertPCMToInt16(bytes) == DecodeFrom(bytes, 1)

PCMThrows(bytes) == Len(bytes) % 2 = 1

RECURSIVE FilterFrom(_, _, _)
FilterFrom(data, k, previous) ==
  IF k > Len(data) THEN [filtered |-> <<>>, lastValue |-> previous]
  ELSE LET filteredSample ==
             (AlphaNum * data[k] * AlphaDen + (AlphaDen - AlphaNum) * previous)
               \div AlphaDen
           rest == FilterFrom(data, k + 1, filteredSample)
       IN [filtered |-> <<ToInt16(Round(filteredSample))>> \o rest.filtered,
           lastValue |-> rest.lastValue]

applyLowPassFilter(data, prevValue) == FilterFrom(data, 1, prevValue)

RECURSIVE TotalLength(_)
TotalLength(chunks) ==
  IF chunks = <<>> THEN 0 ELSE Len(Head(chunks)) + TotalLength(Tail(chunks))

\* ------------------------------------------------------------- the state
NewRes == [headersSent |-> FALSE, status |-> 0, ended |-> FALSE,
           calls |-> <<>>, heads |-> 0]

NewSession == [req |-> "idle", retryCount |-> 0, att |-> <<>>, res |-> NewRes,
               clientGone |-> FALSE, endTimer |-> FALSE]

\* History, kept beside the program's state: only400, every fetch so far
\* answered 400; marks, the milestones passed ("probe404": a fetch answered
\* 404; "timeout": the connection timeout fired before the open event;
\* "close404": an open socket closed with a reason containing 404);
\* act, i and out, the handler that ran last, its attempt and what it wrote
\* with res.write; transient, the handler that ran last met a transient
\* failure (a probe answering 400, a fetch that threw, a socket error with
\* code 400, a close whose reason holds 400) with retry budget left; the carry the filter was given for the session's last
\* frame (carryUsed), the lastValue its frame before returned (carryWant)
\* and the lastValue of its last frame (carryOwn).
NewHist == [only400 |-> TRUE, marks |-> {}, act |-> "none", i |-> 0, out |-> <<>>,
            transient |-> FALSE, carryUsed |-> 0, carryOwn |-> 0, carryWant |-> 0]

\* An attempt: pc, where its connectWebSocket invocation stands; ws, opened,
\* erred, the socket's state and what it emitted; timeout, the connection
\* timeout is armed; buf, the accumulator; flush, how the encode a tick of
\* its interval awaits has settled ("idle": none awaited); handed, the
\* leading chunks of buf already given to the encoder; retried, a handler
\* of this attempt scheduled a retry.
NewAttempt(pc) == [pc |-> pc, ws |-> "none", opened |-> FALSE, erred |-> FALSE,
                   timeout |-> FALSE, buf |-> <<>>, flush |-> "idle",
                   handed |-> 0, retried |-> FALSE]

\* connectWebSocket runs once per request and once per retry.
AttemptIds == 1..(MAX_RETRIES + 1)

AttIds(s) == 1..Len(sess[s].att)

\* A handler works on a context: the session, its history and whether an
\* exception is propagating.
Ctx(s) == [s |-> sess[s],
           h |-> [hist[s] EXCEPT !.act = "other", !.i = 0, !.out = <<>>,
                                !.transient = FALSE],
           threw |-> FALSE]

Act(c, name, i) == [c EXCEPT !.h.act = name, !.h.i = i]

Mark(c, m) == [c EXCEPT !.h.marks = @ \cup {m}]

\* ---------------------------------------------------- express response
\* res.status(code).json(body)
Json(c, code) ==
  LET c1 == [c EXCEPT !.s.res.calls = Append(@, code)] IN
  IF c.s.res.headersSent THEN [c1 EXCEPT !.threw = TRUE]
  ELSE [c1 EXCEPT !.s.res.headersSent = TRUE, !.s.res.status = code,
                  !.s.res.ended = TRUE]

\* res.writeHead(200, {'Content-Type': 'text/event-stream', ...})
WriteHead(c) ==
  LET c1 == [c EXCEPT !.s.res.heads = @ + 1] IN
  IF c.s.res.headersSent THEN [c1 EXCEPT !.threw = TRUE]
  ELSE [c1 EXCEPT !.s.res.headersSent = TRUE, !.s.res.status = 200]

\* res.write(`data: ${JSON.stringify({[kind]: ...})}\n\n`).  A write on a
\* finished response is refused (ERR_STREAM_WRITE_AFTER_END) and leaves it
\* as it was.
Write(c, kind) ==
  LET c1 == [c EXCEPT !.h.out = Append(@, kind)] IN
  IF c.s.res.ended THEN c1
  ELSE [c1 EXCEPT !.s.res.headersSent = TRUE,
                  !.s.res.status = IF @ = 0 THEN 200 ELSE @]

\* res.end()
End(c) == [c EXCEPT !.s.res.headersSent = TRUE,
                    !.s.res.status = IF @ = 0 THEN 200 ELSE @,
                    !.s.res.ended = TRUE]

\* remoteWs.close()
WsClose(c, i) ==
  IF c.s.att[i].ws \in {"connecting", "open"}
  THEN [c EXCEPT !.s.att[i].ws = "closing"] ELSE c

\* retryCount++; setTimeout(connectWebSocket, RETRY_DELAY), reached from
\* attempt i, which is marked as having scheduled a retry.
ScheduleRetry(c, i) ==
  [c EXCEPT !.s.retryCount = @ + 1,
            !.s.att = Append([@ EXCEPT ![i].retried = TRUE], NewAttempt("scheduled"))]

Commit(s, c) ==
  /\ sess' = [sess EXCEPT ![s] = c.s]
  /\ hist' = [hist EXCEPT ![s] = c.h]
  /\ crashed' = c.threw

\* A callback of the event loop (a timer, a socket event, a request) starts
\* when no continuation of an awaited promise is waiting: node runs the
\* microtask queue to its end after every callback, so the statements after
\* the await of a flush run before the next callback.
Awaiting(s) == \E i \in AttIds(s) : sess[s].att[i].flush # "idle"

\* The event loop without that order: a callback may start while a flush
\* waits at its await.
ReadyUnordered == ~crashed

Ready == ~crashed /\ \A s \in Sessions : ~Awaiting(s)

Init ==
  /\ program \in Programs
  /\ sess = [s \in Sessions |-> NewSession]
  /\ hist = [s \in Sessions |-> NewHist]
  /\ filterState = 0
  /\ crashed = FALSE

\* ------------------------------------------- part_000: connectWebSocket
\* retryCount < MAX_RETRIES
Budget(s) == sess[s].retryCount < MAX_RETRIES

\* new WebSocket(wsURL) and everything registered on it: the connection
\* timeout, the handlers, the accumulator, req.on('close'), setInterval.
CreateSocket(c, i) ==
  [c EXCEPT !.s.att[i] = [NewAttempt("socket") EXCEPT !.ws = "connecting",
                                                      !.timeout = TRUE]]

\* A catch block that retries without comparing retryCount to MAX_RETRIES.
CatchNoCeiling(c, i) ==
  ScheduleRetry([c EXCEPT !.threw = FALSE, !.s.att[i].pc = "returned"], i)

\* catch (error) of connectWebSocket.  An exception thrown by the catch
\* block itself rejects the promise nobody awaits.
Catch(c, i) ==
  LET c1 == [c EXCEPT !.threw = FALSE, !.s.att[i].pc = "returned"] IN
  IF c1.s.retryCount < MAX_RETRIES THEN ScheduleRetry(c1, i) ELSE Json(c1, 503)

\* The body of connectWebSocket once fetch has settled.
AfterProbe(c, i, status) ==
  IF status = 0 THEN Catch(c, i)
  ELSE IF status = 404 THEN
    LET r == Json(c, 404) IN
    IF r.threw THEN Catch(r, i) ELSE [r EXCEPT !.s.att[i].pc = "returned"]
  ELSE IF status = 400 /\ c.s.retryCount < MAX_RETRIES THEN
    ScheduleRetry([c EXCEPT !.s.att[i].pc = "returned"], i)
  ELSE CreateSocket(c, i)

\* app.get('/stream') of part_000
Stream(s, hasUrl) ==
  /\ Ready /\ program = "part_000" /\ sess[s].req = "idle"
  /\ LET c == Ctx(s) IN
     IF ~hasUrl
     THEN Commit(s, [c EXCEPT !.s.req = "bad", !.s.res.headersSent = TRUE,
                              !.s.res.status = 400, !.s.res.ended = TRUE])
     ELSE Commit(s, [c EXCEPT !.s.req = "open",
                              !.s.att = <<NewAttempt("probing")>>])
  /\ UNCHANGED <<program, filterState>>

\* The retry timer fires: connectWebSocket runs again and issues its fetch.
RetryFire(s, i) ==
  /\ Ready /\ i \in AttIds(s) /\ sess[s].att[i].pc = "scheduled"
  /\ Commit(s, [Ctx(s) EXCEPT !.s.att[i].pc = "probing"])
  /\ UNCHANGED <<program, filterState>>

\* fetch settles.
Probe(s, i, status) ==
  /\ Ready /\ i \in AttIds(s) /\ sess[s].att[i].pc = "probing"
  /\ LET c0 == [Ctx(s) EXCEPT !.h.only400 = @ /\ status = 400,
                              !.h.transient = Budget(s) /\ status \in {400, 0}]
         c1 == IF status = 404 THEN Mark(c0, "probe404") ELSE c0
     IN Commit(s, AfterProbe(Act(c1, "probe", i), i, status))
  /\ UNCHANGED <<program, filterState>>

\* The connectionTimeout callback.
TimeoutBody(c, i) ==
  LET c1 == [c EXCEPT !.s.att[i].timeout = FALSE] IN
  IF c1.s.att[i].ws # "open" THEN
    LET r == Json(Mark(c1, "timeout"), 504) IN
    IF r.threw THEN r ELSE WsClose(r, i)
  ELSE c1

OnTimeout(s, i) ==
  /\ Ready /\ i \in AttIds(s) /\ sess[s].att[i].timeout
  /\ Commit(s, TimeoutBody(Act(Ctx(s), "timeout", i), i))
  /\ UNCHANGED <<program, filterState>>

\* remoteWs.on('open') of part_000
OpenBody(c, i) ==
  WriteHead([c EXCEPT !.s.att[i].ws = "open", !.s.att[i].opened = TRUE,
                      !.s.att[i].timeout = FALSE])

OnOpen(s, i) ==
  /\ Ready /\ i \in AttIds(s) /\ program = "part_000" /\ sess[s].att[i].ws = "connecting"
  /\ Commit(s, OpenBody(Act(Ctx(s), "open", i), i))
  /\ UNCHANGED <<program, filterState>>

\* ws emits 'error' at most once per socket; the error of a socket that
\* is already closing (an aborted handshake, a reset) carries no HTTP code.
CanError(a, code) ==
  /\ ~a.erred
  /\ \/ a.ws \in {"connecting", "open"}
     \/ a.ws = "closing" /\ code = 0

\* remoteWs.on('error') of part_000.  ws tears the socket down after an
\* error: its close event follows.
ErrorBody(c, i, code) ==
  LET c1 == [c EXCEPT !.s.att[i].erred = TRUE, !.s.att[i].ws = "closing"] IN
  IF code = 400 /\ c1.s.retryCount < MAX_RETRIES THEN ScheduleRetry(c1, i)
  ELSE IF code = 404 THEN
    LET r == Json(c1, 404) IN IF r.threw THEN r ELSE WsClose(r, i)
  ELSE Json(c1, 502)

OnError(s, i, code) ==
  /\ Ready /\ i \in AttIds(s) /\ program = "part_000" /\ CanError(sess[s].att[i], code)
  /\ Commit(s, ErrorBody(Act([Ctx(s) EXCEPT !.h.transient = Budget(s) /\ code = 400],
                              "error", i), i, code))
  /\ UNCHANGED <<program, filterState>>

\* ws emits 'close' once, after the socket was open or was torn down; the
\* reason is the text of the peer's close frame, empty for a socket that
\* never opened.
CanClose(a, reason) ==
  /\ a.ws \in {"open", "closing"}
  /\ reason # {} => a.opened

\* The statusCode the close handler derives from the reason.
StatusOfReason(reason) ==
  IF Includes(reason, "404") THEN 404
  ELSE IF Includes(reason, "400") THEN 400 ELSE 503

\* remoteWs.on('close') of part_000
CloseBody(c, i, reason) ==
  LET statusCode == StatusOfReason(reason)
      c1 == [c EXCEPT !.s.att[i].ws = "closed"]
      c2 == IF statusCode = 404 /\ c.s.att[i].ws = "open"
            THEN Mark(c1, "close404") ELSE c1
  IN IF statusCode = 400 /\ c2.s.retryCount < MAX_RETRIES THEN ScheduleRetry(c2, i)
     ELSE IF statusCode = 404 THEN Json(c2, 404)
     ELSE Json(c2, statusCode)

OnClose(s, i, reason) ==
  /\ Ready /\ i \in AttIds(s) /\ program = "part_000" /\ CanClose(sess[s].att[i], reason)
  /\ Commit(s, CloseBody(Act([Ctx(s) EXCEPT !.h.transient =
                                  Budget(s) /\ StatusOfReason(reason) = 400],
                              "close", i), i, reason))
  /\ UNCHANGED <<program, filterState>>

\* ------------------------------------------------ index.ts: the handler
\* app.get('/stream') of index.ts
StreamIndex(s, hasUrl) ==
  /\ Ready /\ program = "index" /\ sess[s].req = "idle"
  /\ LET c == Ctx(s) IN
     IF ~hasUrl
     THEN Commit(s, [c EXCEPT !.s.req = "bad", !.s.res.headersSent = TRUE,
                              !.s.res.status = 400, !.s.res.ended = TRUE])
     ELSE Commit(s, WriteHead(
            [c EXCEPT !.s.req = "open",
                      !.s.att = <<[NewAttempt("socket") EXCEPT
                                     !.ws = "connecting"]>>]))
  /\ UNCHANGED <<program, filterState>>

\* remoteWs.on('open') of index.ts
OnOpenIndex(s, i) ==
  /\ Ready /\ i \in AttIds(s) /\ program = "index" /\ sess[s].att[i].ws = "connecting"
  /\ Commit(s, [Act(Ctx(s), "open", i) EXCEPT !.s.att[i].ws = "open",
                                               !.s.att[i].opened = TRUE])
  /\ UNCHANGED <<program, filterState>>

\* remoteWs.on('error') of index.ts
OnErrorIndex(s, i) ==
  /\ Ready /\ i \in AttIds(s) /\ program = "index" /\ CanError(sess[s].att[i], 0)
  /\ Commit(s, Write([Act(Ctx(s), "error", i) EXCEPT !.s.att[i].erred = TRUE,
                                                     !.s.att[i].ws = "closing"], "error"))
  /\ UNCHANGED <<program, filterState>>

\* remoteWs.on('close') of index.ts: res.end() 8 seconds later.
OnCloseIndex(s, i) ==
  /\ Ready /\ i \in AttIds(s) /\ program = "index" /\ CanClose(sess[s].att[i], {})
  /\ Commit(s, [Act(Ctx(s), "close", i) EXCEPT !.s.att[i].ws = "closed",
                                                !.s.endTimer = TRUE])
  /\ UNCHANGED <<program, filterState>>

EndTimer(s) ==
  /\ Ready /\ sess[s].endTimer
  /\ Commit(s, End([Ctx(s) EXCEPT !.s.endTimer = FALSE]))
  /\ UNCHANGED <<program, filterState>>

\* ------------------------------------------------- both: shared handlers
RECURSIVE CloseAll(_, _)
CloseAll(c, i) ==
  IF i > Len(c.s.att) THEN c
  ELSE CloseAll(IF c.s.att[i].pc = "socket" THEN WsClose(c, i) ELSE c, i + 1)

\* The client disconnects: every req.on('close') listener registered so far
\* runs (one per socket created before this moment).
ReqClose(s) ==
  /\ Ready /\ sess[s].req = "open" /\ ~sess[s].clientGone
  /\ Commit(s, CloseAll([Act(Ctx(s), "disconnect", 0) EXCEPT !.s.clientGone = TRUE], 1))
  /\ UNCHANGED <<program, filterState>>

\* ws delivers frames while the socket is open, and still after a local
\* close() until the closing handshake ends.
CanReceive(a) == a.opened /\ ~a.erred /\ a.ws \in {"open", "closing"}

\* remoteWs.on('message')
OnMessage(s, i, data, isBinary) ==
  /\ Ready /\ i \in AttIds(s) /\ CanReceive(sess[s].att[i])
  /\ Len(sess[s].att[i].buf) < MaxChunks
  /\ LET c == Act(Ctx(s), "message", i) IN
     IF ~isBinary THEN Commit(s, c) /\ UNCHANGED filterState
     ELSE IF PCMThrows(data) THEN
       /\ Commit(s, Write(c, "error"))
       /\ UNCHANGED filterState
     ELSE
       LET int16Chunk == convertPCMToInt16(data)
           out == applyLowPassFilter(int16Chunk, filterState)
           c1 == [Act(c, "frame", i) EXCEPT !.s.att[i].buf = Append(@, out.filtered),
                           !.h.carryUsed = filterState,
                           !.h.carryWant = c.h.carryOwn,
                           !.h.carryOwn = out.lastValue]
       IN /\ filterState' = out.lastValue
          /\ Commit(s, c1)
  /\ UNCHANGED program

\* 1152-sample blocks the encoder is fed.
Blocks(totalLength) == (totalLength + 1151) \div 1152

\* convertChunksToMp3: null for no chunks, else the base64 text of what the
\* encoder emitted, as the number of fragments collected: at most one per
\* block, and the one mp3Encoder.flush() returns (the trailing frames).
convertChunksToMp3(pcmChunks) ==
  IF Len(pcmChunks) = 0 THEN 0
  ELSE Blocks(TotalLength(pcmChunks)) + 1

\* The setInterval callback up to its await: convertChunksToMp3 has no
\* await of its own, so it reads the accumulator and encodes before the
\* callback suspends; flush keeps how its promise settled ("bytes", or
\* "throw" when the encoder threw).  handed counts the leading chunks of the
\* accumulator that were given to the encoder.
FlushStart(c, i, encoded) ==
  LET audioBuffer == c.s.att[i].buf IN
  IF Len(audioBuffer) > 0
  THEN [c EXCEPT !.s.att[i].flush = encoded, !.s.att[i].handed = Len(audioBuffer)]
  ELSE c

FlushTick(s, i, encoded) ==
  /\ Ready /\ i \in AttIds(s) /\ sess[s].att[i].pc = "socket"
  /\ Commit(s, FlushStart(Act(Ctx(s), "tick", i), i, encoded))
  /\ UNCHANGED <<program, filterState>>

\* The rest of the setInterval callback, after the await.
FlushBody(c, i) ==
  LET c0 == [c EXCEPT !.s.att[i].flush = "idle"] IN
  IF c.s.att[i].flush = "throw" THEN Write(c0, "error")
  ELSE LET mp3Base64 == convertChunksToMp3(c.s.att[i].buf)
           c1 == [c0 EXCEPT !.s.att[i].buf = <<>>, !.s.att[i].handed = 0]
       IN IF mp3Base64 > 0 THEN Write(c1, "mp3") ELSE c1

FlushResume(s, i) ==
  /\ ~crashed /\ i \in AttIds(s) /\ sess[s].att[i].flush # "idle"
  /\ Commit(s, FlushBody(Act(Ctx(s), "flush", i), i))
  /\ UNCHANGED <<program, filterState>>

\* ----------------------------------------------------- specifications
Next ==
  \E s \in LifecycleSessions :
    \/ \E hasUrl \in BOOLEAN : Stream(s, hasUrl)
    \/ \E hasUrl \in BOOLEAN : StreamIndex(s, hasUrl)
    \/ ReqClose(s)
    \/ EndTimer(s)
    \/ \E i \in AttemptIds : RetryFire(s, i)
    \/ \E i \in AttemptIds, status \in ProbeResults : Probe(s, i, status)
    \/ \E i \in AttemptIds : OnTimeout(s, i)
    \/ \E i \in AttemptIds : OnOpen(s, i)
    \/ \E i \in AttemptIds, code \in ErrorCodes : OnError(s, i, code)
    \/ \E i \in AttemptIds, reason \in Reasons : OnClose(s, i, reason)
    \/ \E i \in AttemptIds : OnOpenIndex(s, i)
    \/ \E i \in AttemptIds : OnErrorIndex(s, i)
    \/ \E i \in AttemptIds : OnCloseIndex(s, i)
    \/ \E i \in AttemptIds, data \in LifecycleFrames, isBinary \in BOOLEAN :
         OnMessage(s, i, data, isBinary)
    \/ \E i \in AttemptIds, encoded \in Encodings : FlushTick(s, i, encoded)
    \/ \E i \in AttemptIds : FlushResume(s, i)

Spec == Init /\ [][Next]_vars

\* Two sessions of one process, both connected and streaming.
Connected ==
  [NewSession EXCEPT !.req = "open",
     !.att = <<[NewAttempt("socket") EXCEPT !.ws = "open", !.opened = TRUE]>>,
     !.res = [NewRes EXCEPT !.headersSent = TRUE, !.status = 200, !.heads = 1]]

InitFilter ==
  /\ program \in Programs
  /\ sess = [s \in Sessions |-> Connected]
  /\ hist = [s \in Sessions |->
               [NewHist EXCEPT !.only400 = program = "index"]]
  /\ filterState = 0
  /\ crashed = FALSE

NextFilter ==
  \E s \in Sessions, i \in AttemptIds, data \in FilterFrames :
    OnMessage(s, i, data, TRUE)

SpecFilter == InitFilter /\ [][NextFilter]_vars

\* --------------------------------------------------------------- claims
Sockets(s) == {i \in AttIds(s) : sess[s].att[i].pc = "socket"}

\* The step starts no fetch, creates no socket and schedules no retry.
NoNewAttempt(s) ==
  \A i \in 1..Len(sess'[s].att) :
    sess'[s].att[i].pc \in {"scheduled", "probing", "socket"}
      => (i \in AttIds(s) /\ sess[s].att[i].pc = sess'[s].att[i].pc)

\* C1: in a session whose every probe answers 400, once MAX_RETRIES retries
\* were scheduled and the last of them has probed, the session has sent a
\* terminal failure response and has created no upstream socket.
C1_ExhaustedProbesFail ==
  \A s \in Sessions :
    LET S == sess[s] IN
    (/\ hist[s].only400
     /\ Len(S.att) = MAX_RETRIES + 1
     /\ \A i \in AttIds(s) : S.att[i].pc \notin {"scheduled", "probing"})
    => /\ S.retryCount = MAX_RETRIES
       /\ S.res.ended /\ S.res.status >= 500
       /\ Sockets(s) = {}

\* C2: after the client disconnected, no step of the session starts a
\* probe or creates a socket, no upstream socket is connecting or open, and
\* no binary frame is processed.
C2_DisconnectStopsUpstream ==
  [][\A s \in Sessions :
       sess[s].clientGone =>
         /\ NoNewAttempt(s)
         /\ \A i \in 1..Len(sess'[s].att) :
              sess'[s].att[i].ws \notin {"connecting", "open"}
         /\ hist'[s].act # "frame"]_vars

\* C3: after the client disconnected, no flush tick runs for the session
\* and nothing is written to its response.
C3_DisconnectCancelsFlush ==
  [][\A s \in Sessions :
       sess[s].clientGone =>
         /\ hist'[s].act \notin {"tick", "flush"}
         /\ hist'[s].out = <<>>
         /\ sess'[s].res = sess[s].res]_vars

\* C4: a session ends its response with a terminal error at most once.
C4_OneTerminalResponse ==
  \A s \in Sessions : Len(sess[s].res.calls) <= 1

\* C5: the SSE headers are sent only after an upstream socket of the
\* session has opened.
C5_HeadersAfterOpen ==
  \A s \in Sessions :
    sess[s].res.heads > 0 => \E i \in AttIds(s) : sess[s].att[i].opened

\* C6: once a probe answered 404, the session has answered 404, and that
\* step and every later one schedules no retry and creates no socket.
C6_Probe404Final ==
  [][\A s \in Sessions :
       "probe404" \in hist'[s].marks =>
         /\ sess'[s].res.status = 404
         /\ sess'[s].retryCount = sess[s].retryCount
         /\ \A i \in 1..Len(sess'[s].att) :
              sess'[s].att[i].pc = "socket" => (i \in AttIds(s) /\ sess[s].att[i].pc = "socket")]_vars

\* C7: once an open socket closed with a reason containing 404, the client
\* has a 404 response, and that step and every later one schedules no retry.
C7_Close404Final ==
  [][\A s \in Sessions :
       "close404" \in hist'[s].marks =>
         /\ sess'[s].res.status = 404
         /\ sess'[s].retryCount = sess[s].retryCount]_vars

\* C8: a flush tick of a connected socket emits nothing and starts no
\* encode when its accumulator is empty, and otherwise its flush cycle
\* emits exactly one mp3 event and leaves the accumulator empty.
C8_FlushTick ==
  [][\A s \in Sessions :
       (hist'[s].act \in {"tick", "flush"} /\ sess[s].att[hist'[s].i].ws = "open") =>
         LET i == hist'[s].i
             n == Len(sess[s].att[i].buf)
         IN /\ (hist'[s].act = "tick" /\ n = 0) =>
                 (hist'[s].out = <<>> /\ sess'[s].att[i].flush = "idle")
            /\ (hist'[s].act = "tick" /\ n >= 1) => sess'[s].att[i].flush # "idle"
            /\ hist'[s].act = "flush" =>
                 (hist'[s].out = <<"mp3">> /\ sess'[s].att[i].buf = <<>>)]_vars

\* C9: the carry the filter is given for a frame of a session is the
\* lastValue returned for that session's previous frame (0 for its first).
C9_FilterStatePerSession ==
  \A s \in Sessions : hist[s].carryUsed = hist[s].carryWant

\* C10: once the connection timeout fired before the open event, 504 is the
\* only response of the session, its sockets are force-closed, and no retry
\* or further attempt follows; a socket that opened has no timeout armed.
C10_TimeoutFinal ==
  [][\A s \in Sessions :
       /\ "timeout" \in hist'[s].marks =>
            /\ sess'[s].res.calls = <<504>>
            /\ "timeout" \in hist[s].marks => NoNewAttempt(s)
            /\ hist'[s].act = "timeout" =>
                 sess'[s].att[hist'[s].i].ws \notin {"connecting", "open"}
       /\ \A i \in 1..Len(sess'[s].att) :
            sess'[s].att[i].opened => ~sess'[s].att[i].timeout]_vars

\* C11: a handler that meets a transient failure while retry budget is left
\* writes nothing to the client, and neither does the close event of a socket
\* whose error was retried, as long as budget is left.
C11_TransientSilent ==
  [][\A s \in Sessions :
       /\ hist'[s].transient =>
            (sess'[s].res = sess[s].res /\ hist'[s].out = <<>>)
       /\ (/\ hist'[s].act = "close"
           /\ sess[s].att[hist'[s].i].retried
           /\ Budget(s)) =>
            (sess'[s].res = sess[s].res /\ hist'[s].out = <<>>)]_vars

\* C12: when the encode of a flush cycle fails, one error event is written,
\* the process, the socket and the flush timer stay as they were, and the
\* failed batch is released, so that the next tick encodes only the chunks
\* that arrived after it.
C12_EncodeFailureContained ==
  [][\A s \in Sessions :
       LET i == hist'[s].i IN
       (hist'[s].act = "flush" /\ sess[s].att[i].flush = "throw") =>
         /\ hist'[s].out = <<"error">>
         /\ ~crashed'
         /\ sess'[s].att[i].ws = sess[s].att[i].ws
         /\ sess'[s].att[i].pc = "socket"
         /\ sess'[s].att[i].buf = <<>>
         /\ sess'[s].att[i].handed = 0]_vars

\* C13: a flush tick hands the encoder no chunk that an earlier tick handed
\* it, and the reset of the accumulator after the encode removes no chunk
\* that was not handed to the encoder.
C13_ChunkEncodedOnce ==
  [][\A s \in Sessions :
       LET i == hist'[s].i IN
       /\ (hist'[s].act = "tick" /\ Len(sess[s].att[i].buf) > 0) =>
            sess[s].att[i].handed = 0
       /\ (hist'[s].act = "flush" /\ sess'[s].att[i].buf = <<>>) =>
            sess[s].att[i].handed = Len(sess[s].att[i].buf)]_vars

Flushing(s) == {i \in AttIds(s) : sess[s].att[i].flush # "idle"}

\* C14: a tick starts only when no flush cycle of its session is waiting at
\* its await, so a session has at most one flush cycle in flight.
C14_SingleFlight ==
  [][\A s \in Sessions :
       /\ hist'[s].act = "tick" => Flushing(s) = {}
       /\ Cardinality({i \in 1..Len(sess'[s].att) :
                         sess'[s].att[i].flush # "idle"}) <= 1]_vars

\* C14 witness: a flush cycle is in flight on an open socket whose flush
\* timer is set, so the timer's next tick is due while the cycle waits.
C14_Witness ==
  \E s \in Sessions : \E i \in AttIds(s) :
    /\ sess[s].att[i].flush # "idle"
    /\ sess[s].att[i].pc = "socket" /\ sess[s].att[i].ws = "open"
    /\ Len(sess[s].att[i].buf) > 0

\* C15: once the SSE headers of a session were sent, no step calls
\* res.status(..).json(..) on its response.
C15_InBandAfterHeaders ==
  [][\A s \in Sessions :
       (sess[s].res.heads > 0 /\ sess[s].res.headersSent) =>
         sess'[s].res.calls = sess[s].res.calls]_vars

Terminal(r) == r.ended /\ r.status \in {404, 502, 503, 504}

\* C16: once a session sent a terminal error response, no retry is pending,
\* no probe runs, no socket is connecting or open, no flush timer is set,
\* and no step changes the session.
C16_ClosedTerminal ==
  [][\A s \in Sessions :
       /\ Terminal(sess'[s].res) =>
            \A i \in 1..Len(sess'[s].att) :
              /\ sess'[s].att[i].pc \notin {"scheduled", "probing", "socket"}
              /\ sess'[s].att[i].ws \notin {"connecting", "open"}
       /\ Terminal(sess[s].res) => sess'[s] = sess[s]]_vars

\* C17: retryCount stays within 0..MAX_RETRIES, never decreases, and counts
\* the retries scheduled (the attempts after the first).
C17_RetryCountBounded ==
  [][\A s \in Sessions :
       /\ sess[s].retryCount \in 0..MAX_RETRIES
       /\ sess'[s].retryCount \in 0..MAX_RETRIES
       /\ sess'[s].retryCount >= sess[s].retryCount
       /\ Len(sess'[s].att) > 0 => Len(sess'[s].att) - 1 = sess'[s].retryCount]_vars

\* C17 witness: the ceiling is reached, a socket of the session opened on
\* the way, and the socket of the last attempt has failed and closed.
C17_Witness ==
  \E s \in Sessions :
    /\ sess[s].retryCount = MAX_RETRIES
    /\ \E i \in AttIds(s) : sess[s].att[i].opened
    /\ sess[s].att[Len(sess[s].att)].ws = "closed"

\* C18: a session has at most one retry pending or probe running and at
\* most one socket connecting or open, and an attempt that scheduled a
\* retry schedules no second one.
C18_OneAttemptInProgress ==
  [][\A s \in Sessions :
       /\ Cardinality({i \in 1..Len(sess'[s].att) :
            sess'[s].att[i].pc \in {"scheduled", "probing"}}) <= 1
       /\ Cardinality({i \in 1..Len(sess'[s].att) :
            sess'[s].att[i].ws \in {"connecting", "open"}}) <= 1
       /\ (hist'[s].i > 0 /\ sess[s].att[hist'[s].i].retried) =>
            sess'[s].retryCount = sess[s].retryCount]_vars

\* C19: a session has at most one flush timer and one disconnect handler.
C19_OneFlushTimer ==
  \A s \in Sessions : Cardinality(Sockets(s)) <= 1

\* C20: writeHead(200) runs at most once per session, and only on a
\* response whose headers were not sent.
C20_HeadersOnce ==
  [][\A s \in Sessions :
       sess'[s].res.heads > sess[s].res.heads =>
         (~sess[s].res.headersSent /\ sess'[s].res.heads <= 1)]_vars
====
